---- MODULE Spec2Model ----
(***************************************************************************)
(* A model of converter.py: the option translator of MediaConverter        *)
(* (_build_filter, _build_video_opts, _build_image_opts), the process      *)
(* runner (convert), the size-targeted compression (compress_media,        *)
(* get_info) and the interactive loop (main, advanced_options,             *)
(* parse_size, get_file, get_output_dir).                                  *)
(*                                                                         *)
(* Python values are modelled as follows.  An Optional[T] is a sequence of *)
(* length 0 (None) or 1 (the value); a str is a TLA+ string; a list of str *)
(* is a sequence of strings.  Text that the code takes apart (the probe's  *)
(* output, the answers typed at a prompt) is a sequence of one-character   *)
(* strings.                                                                *)
(***************************************************************************)
EXTENDS Integers, Sequences, FiniteSets, TLC

VARIABLES
    opts,           \* the ConvertOptions of the call
    input_file,     \* [stem, ext]: the input path
    output_file,    \* [stem, ext]: the output path
    input_exists,   \* os.path.exists(input_file)
    out_state,      \* the output file on disk: "missing", "empty", "nonempty"
    pc,             \* the position of the call
    call,           \* the function that was called
    args,           \* the list a builder returned
    cmd,            \* the command convert built
    popen_calls,    \* the number of engine processes the call started
    returncode,     \* the engine's exit status once it has exited
    ret,            \* the call's result: "none", "True", "False", "raised"
    probe,          \* what get_info meets: [path_ok, run_ok, stdout]
    target_size_mb, \* compress_media's target size
    info,           \* the mapping get_info returned
    target_bits_safe, \* compress_media's local of that name
    answers         \* main: the texts typed in the pass, <<prompt, text>>

vars == <<opts, input_file, output_file, input_exists, out_state, pc, call,
          args, cmd, popen_calls, returncode, ret, probe, target_size_mb,
          info, target_bits_safe, answers>>

(***************************************************************************)
(* Python values                                                           *)
(***************************************************************************)
None == <<>>

Some(v) == <<v>>

\* bool(x) of an Optional[int]: None and 0 are false
TruthyInt(x) == x # None /\ x[1] # 0

\* bool(x) of an Optional[str]: None and "" are false
TruthyStr(x) == x # None /\ x[1] # ""

\* bool(x) of an Optional[List[str]]: None and [] are false
TruthyList(x) == x # None /\ x[1] # <<>>

\* x or d, for an Optional[int]
OrInt(x, d) == IF TruthyInt(x) THEN x[1] ELSE d

\* x or d, for an Optional[str]
OrStr(x, d) == IF TruthyStr(x) THEN x[1] ELSE d

\* str(n) of an int
Str(n) == ToString(n)

Min(a, b) == IF a < b THEN a ELSE b

Max(a, b) == IF a > b THEN a ELSE b

RECURSIVE Join(_, _)
\* sep.join(parts)
Join(parts, sep) ==
    IF parts = <<>> THEN ""
    ELSE IF Len(parts) = 1 THEN parts[1]
    ELSE parts[1] \o sep \o Join(Tail(parts), sep)

RECURSIVE Count(_, _)
\* the number of occurrences of token t in the list s
Count(t, s) ==
    IF s = <<>> THEN 0
    ELSE (IF Head(s) = t THEN 1 ELSE 0) + Count(t, Tail(s))

\* the positions of token t in the list s
Positions(t, s) == {i \in 1..Len(s) : s[i] = t}

\* the token after the flag at position i
ValueAt(s, i) == IF i < Len(s) THEN s[i + 1] ELSE ""

\* str.lower() on the extensions the model uses
Lower(ext) ==
    CASE ext = ".MP4" -> ".mp4"
      [] ext = ".MKV" -> ".mkv"
      [] ext = ".GIF" -> ".gif"
      [] ext = ".JPG" -> ".jpg"
      [] ext = ".PNG" -> ".png"
      [] ext = ".WebP" -> ".webp"
      [] OTHER -> ext

(***************************************************************************)
(* The classification tables                                               *)
(***************************************************************************)
VIDEO_EXTS == {".mp4", ".avi", ".mkv", ".mov", ".wmv", ".flv", ".webm",
               ".m4v", ".ts", ".m2ts"}

IMAGE_EXTS == {".jpg", ".jpeg", ".png", ".bmp", ".gif", ".webp", ".tiff",
               ".tif", ".ico", ".raw", ".cr2", ".nef"}

AUDIO_EXTS == {".mp3", ".wav", ".aac", ".flac", ".ogg", ".m4a", ".wma"}

\* ConvertOptions(): every field None
ConvertOptions ==
    [width |-> None, height |-> None, fps |-> None, quality |-> None,
     bitrate |-> None, audio_bitrate |-> None, codec |-> None,
     preset |-> None, extra_args |-> None, output_dir |-> None]

(***************************************************************************)
(* The option translator                                                   *)
(***************************************************************************)
\* ScaleFilter with the axes of the height-only case exchanged
ScaleFilter_SwappedAxes(o) ==
    IF TruthyInt(o.width) \/ TruthyInt(o.height)
    THEN LET w == OrInt(o.width, -1)
             h == OrInt(o.height, -1)
         IN  IF w = -1 THEN <<"scale=" \o Str(h) \o ":-1">>
             ELSE IF h = -1 THEN <<"scale=" \o Str(w) \o ":-1">>
             ELSE <<"scale=" \o Str(w) \o ":" \o Str(h)>>
    ELSE <<>>

\* the scale entry of _build_filter
ScaleFilter(o) ==
    IF TruthyInt(o.width) \/ TruthyInt(o.height)
    THEN LET w == OrInt(o.width, -1)
             h == OrInt(o.height, -1)
         IN  IF w = -1 THEN <<"scale=-1:" \o Str(h)>>
             ELSE IF h = -1 THEN <<"scale=" \o Str(w) \o ":-1">>
             ELSE <<"scale=" \o Str(w) \o ":" \o Str(h)>>
    ELSE <<>>

\* the fps entry of _build_filter
FpsFilter(o) ==
    IF TruthyInt(o.fps) THEN <<"fps=" \o Str(o.fps[1])>> ELSE <<>>

_build_filter(o) ==
    LET filters == ScaleFilter(o) \o FpsFilter(o)
    IN  IF filters # <<>> THEN <<"-vf", Join(filters, ",")>> ELSE <<>>

codec_map ==
    [e \in {".mp4", ".mov", ".m4v", ".avi", ".mkv", ".webm", ".wmv", ".flv",
            ".gif"} |->
        CASE e = ".avi" -> "libxvid"
          [] e = ".webm" -> "libvpx-vp9"
          [] e = ".wmv" -> "wmv2"
          [] e = ".gif" -> "gif"
          [] OTHER -> "libx264"]

\* the pieces of the filter graph of the GIF path, in order
GifFilterParts(o) ==
    <<"fps=" \o Str(OrInt(o.fps, 30)), ",",
      "scale=" \o Str(OrInt(o.width, 480)) \o ":-1:flags=lanczos", ",",
      "split[s0][s1]", ";",
      "[s0]", "palettegen", "=max_colors=128", "[p]", ";",
      "[s1][p]", "paletteuse">>

\* the filter graph of the GIF path
GifFilter(o) == Join(GifFilterParts(o), "")

\* CodecStep with the table consulted before the explicit codec
CodecStep_TableFirst(output_ext, o) ==
    IF Lower(output_ext) \in DOMAIN codec_map
    THEN IF Lower(output_ext) = ".gif"
         THEN [flags |-> <<"-vf", GifFilter(o), "-loop", "0">>, gif |-> TRUE]
         ELSE [flags |-> <<"-c:v", codec_map[Lower(output_ext)]>>,
               gif |-> FALSE]
    ELSE IF TruthyStr(o.codec)
    THEN [flags |-> <<"-c:v", o.codec[1]>>, gif |-> FALSE]
    ELSE [flags |-> <<>>, gif |-> FALSE]

\* the codec step of _build_video_opts: the flags it adds, and whether the
\* GIF path was taken (which returns at once)
CodecStep(output_ext, o) ==
    IF TruthyStr(o.codec)
    THEN [flags |-> <<"-c:v", o.codec[1]>>, gif |-> FALSE]
    ELSE IF Lower(output_ext) \in DOMAIN codec_map
    THEN IF Lower(output_ext) = ".gif"
         THEN [flags |-> <<"-vf", GifFilter(o), "-loop", "0">>, gif |-> TRUE]
         ELSE [flags |-> <<"-c:v", codec_map[Lower(output_ext)]>>,
               gif |-> FALSE]
    ELSE [flags |-> <<>>, gif |-> FALSE]

\* RateStep with the quality tested for truth, so that 0 counts as absent
RateStep_TruthyQuality(o) ==
    IF TruthyInt(o.quality) THEN <<"-crf", Str(o.quality[1])>>
    ELSE IF TruthyStr(o.bitrate) THEN <<"-b:v", o.bitrate[1]>>
    ELSE <<>>

\* the quality/bitrate step of _build_video_opts
RateStep(o) ==
    IF o.quality # None THEN <<"-crf", Str(o.quality[1])>>
    ELSE IF TruthyStr(o.bitrate) THEN <<"-b:v", o.bitrate[1]>>
    ELSE <<>>

\* the preset step of _build_video_opts
PresetStep(o) ==
    IF TruthyStr(o.preset) THEN <<"-preset", o.preset[1]>> ELSE <<>>

\* AudioStep without the default
AudioStep_NoDefault(o) ==
    IF TruthyStr(o.audio_bitrate)
    THEN <<"-c:a", "aac", "-b:a", o.audio_bitrate[1]>>
    ELSE <<>>

\* the audio step of _build_video_opts
AudioStep(o) ==
    IF TruthyStr(o.audio_bitrate)
    THEN <<"-c:a", "aac", "-b:a", o.audio_bitrate[1]>>
    ELSE <<"-c:a", "aac", "-b:a", "192k">>

\* the extra_args step of _build_video_opts
ExtraStep(o) ==
    IF TruthyList(o.extra_args) THEN o.extra_args[1] ELSE <<>>

_build_video_opts(output_ext, o) ==
    LET c == CodecStep(output_ext, o)
    IN  IF c.gif
        THEN _build_filter(o) \o c.flags
        ELSE _build_filter(o) \o c.flags \o RateStep(o) \o PresetStep(o)
             \o AudioStep(o) \o ExtraStep(o)

\* the vf list of _build_image_opts after the scale step
ImageScale(o) ==
    IF TruthyInt(o.width) \/ TruthyInt(o.height)
    THEN <<"scale=" \o Str(OrInt(o.width, -1)) \o ":"
           \o Str(OrInt(o.height, -1)) \o ":flags=lanczos">>
    ELSE <<>>

\* q of _build_image_opts
ImageQ(o) == IF o.quality = None THEN 2 ELSE o.quality[1]

\* ImageFormatStep with the upper clamps left out
ImageFormatStep_NoUpperClamp(output_ext, o) ==
    LET q == ImageQ(o)
        ext == Lower(output_ext)
    IN  IF ext \in {".jpg", ".jpeg"}
        THEN [vf |-> <<"format=yuvj420p">>,
              flags |-> <<"-q:v", Str(Max(q, 2))>>]
        ELSE IF ext = ".png"
        THEN [vf |-> <<>>,
              flags |-> <<"-compression_level", Str(Max(q \div 3, 0))>>]
        ELSE IF ext = ".webp"
        THEN [vf |-> <<>>, flags |-> <<"-q:v", Str(Max(q, 1))>>]
        ELSE [vf |-> <<>>, flags |-> <<>>]

\* the per-format step of _build_image_opts: the vf entry and the flags
ImageFormatStep(output_ext, o) ==
    LET q == ImageQ(o)
        ext == Lower(output_ext)
    IN  IF ext \in {".jpg", ".jpeg"}
        THEN [vf |-> <<"format=yuvj420p">>,
              flags |-> <<"-q:v", Str(Min(Max(q, 2), 31))>>]
        ELSE IF ext = ".png"
        THEN [vf |-> <<>>,
              flags |-> <<"-compression_level",
                          Str(Min(Max(q \div 3, 0), 9))>>]
        ELSE IF ext = ".webp"
        THEN [vf |-> <<>>, flags |-> <<"-q:v", Str(Min(Max(q, 1), 100))>>]
        ELSE [vf |-> <<>>, flags |-> <<>>]

_build_image_opts(output_ext, o) ==
    LET f == ImageFormatStep(output_ext, o)
        vf == ImageScale(o) \o f.vf
    IN  f.flags \o (IF vf # <<>> THEN <<"-vf", Join(vf, ",")>> ELSE <<>>)
        \o <<"-y">>

(***************************************************************************)
(* convert: the command                                                    *)
(***************************************************************************)
ffmpeg_path == "ffmpeg.exe"

\* str(path) of a path [stem, ext]
PathStr(p) == p.stem \o p.ext

\* Path(p).suffix.lower()
SuffixLower(p) == Lower(p.ext)

is_video_input(in) ==
    SuffixLower(in) \in VIDEO_EXTS \/ SuffixLower(in) \in {".gif"}

is_image_input(in) == SuffixLower(in) \in IMAGE_EXTS

\* is_video_output without .gif
is_video_output_NoGif(out) == SuffixLower(out) \in VIDEO_EXTS

is_video_output(out) ==
    SuffixLower(out) \in VIDEO_EXTS \/ SuffixLower(out) = ".gif"

is_image_output(out) == SuffixLower(out) \in IMAGE_EXTS

\* ImageToVideoCmd with the filter placed before the input
ImageToVideoCmd_FilterFirst(in, o) ==
    <<ffmpeg_path, "-loop", "1">>
    \o _build_filter(o)
    \o <<"-i", PathStr(in),
         "-c:v", OrStr(o.codec, "libx264"), "-t", Str(5),
         "-pix_fmt", "yuv420p">>
    \o (IF TruthyInt(o.quality) THEN <<"-crf", Str(o.quality[1])>>
        ELSE <<>>)

\* the image-to-video command of convert, before the output path
ImageToVideoCmd(in, o) ==
    <<ffmpeg_path, "-loop", "1", "-i", PathStr(in),
      "-c:v", OrStr(o.codec, "libx264"), "-t", Str(5),
      "-pix_fmt", "yuv420p">>
    \o _build_filter(o)
    \o (IF TruthyInt(o.quality) THEN <<"-crf", Str(o.quality[1])>>
        ELSE <<>>)

\* FrameStep without the test of the input
FrameStep_Always(in) == <<"-ss", "00:00:01", "-vframes", "1">>

\* the seek and frame limit convert adds for a video input on the image path
FrameStep(in) ==
    IF is_video_input(in) THEN <<"-ss", "00:00:01", "-vframes", "1">>
    ELSE <<>>

\* the command convert hands to Popen
BuildCmd(in, out, o) ==
    (IF is_video_output(out)
     THEN IF is_image_input(in)
          THEN ImageToVideoCmd(in, o)
          ELSE <<ffmpeg_path, "-i", PathStr(in)>>
               \o _build_video_opts(SuffixLower(out), o)
     ELSE <<ffmpeg_path, "-i", PathStr(in)>> \o FrameStep(in)
          \o _build_image_opts(SuffixLower(out), o))
    \o <<PathStr(out)>>

(***************************************************************************)
(* get_info: the probe's output, taken apart                               *)
(***************************************************************************)
\* the position of the first "=" of a line, 0 when it has none
RECURSIVE FirstEq(_, _)
FirstEq(line, i) ==
    IF i > Len(line) THEN 0
    ELSE IF line[i] = "=" THEN i
    ELSE FirstEq(line, i + 1)

\* info after the first n lines of stdout: k, v = line.split('=', 1)
RECURSIVE InfoOf(_, _)
InfoOf(lines, n) ==
    IF n = 0 THEN [k \in {} |-> <<>>]
    ELSE LET prev == InfoOf(lines, n - 1)
             line == lines[n]
             e == FirstEq(line, 1)
         IN  IF e = 0 THEN prev
             ELSE LET key == SubSeq(line, 1, e - 1)
                      val == SubSeq(line, e + 1, Len(line))
                  IN  [k \in DOMAIN prev \cup {key} |->
                          IF k = key THEN val ELSE prev[k]]

get_info(p) ==
    IF ~p.path_ok THEN [k \in {} |-> <<>>]
    ELSE IF ~p.run_ok THEN [k \in {} |-> <<>>]
    ELSE InfoOf(p.stdout, Len(p.stdout))

(***************************************************************************)
(* float(): a decimal numeral becomes the fraction num/den; any other     *)
(* text raises ValueError                                                  *)
(***************************************************************************)
Digits == {"0", "1", "2", "3", "4", "5", "6", "7", "8", "9"}

DigitVal(c) ==
    CASE c = "0" -> 0 [] c = "1" -> 1 [] c = "2" -> 2 [] c = "3" -> 3
      [] c = "4" -> 4 [] c = "5" -> 5 [] c = "6" -> 6 [] c = "7" -> 7
      [] c = "8" -> 8 [] c = "9" -> 9

\* int() of a run of digits
RECURSIVE DigitsVal(_)
DigitsVal(ds) ==
    IF ds = <<>> THEN 0
    ELSE 10 * DigitsVal(SubSeq(ds, 1, Len(ds) - 1)) + DigitVal(ds[Len(ds)])

RECURSIVE Pow10(_)
Pow10(n) == IF n = 0 THEN 1 ELSE 10 * Pow10(n - 1)

\* a fraction's digits without their trailing zeros (the value is the same)
RECURSIVE StripZeros(_)
StripZeros(ds) ==
    IF ds # <<>> /\ ds[Len(ds)] = "0"
    THEN StripZeros(SubSeq(ds, 1, Len(ds) - 1))
    ELSE ds

\* the position of the first "." of a text, 0 when it has none
RECURSIVE FirstDot(_, _)
FirstDot(t, i) ==
    IF i > Len(t) THEN 0
    ELSE IF t[i] = "." THEN i
    ELSE FirstDot(t, i + 1)

\* float(text) for a text of the probe
FloatOfText(t) ==
    LET d == FirstDot(t, 1)
        ip == IF d = 0 THEN t ELSE SubSeq(t, 1, d - 1)
        fp == IF d = 0 THEN <<>> ELSE StripZeros(SubSeq(t, d + 1, Len(t)))
    IN  IF /\ \A i \in 1..Len(ip) : ip[i] \in Digits
           /\ \A i \in 1..Len(fp) : fp[i] \in Digits
           /\ (ip # <<>> \/ (d # 0 /\ Len(t) > 1))
        THEN [ok |-> TRUE, num |-> DigitsVal(ip \o fp), den |-> Pow10(Len(fp))]
        ELSE [ok |-> FALSE, num |-> 0, den |-> 1]

K_duration == <<"d", "u", "r", "a", "t", "i", "o", "n">>

K_format_duration == <<"f", "o", "r", "m", "a", "t", ".">> \o K_duration

\* float(info.get('duration', 0) or info.get('format.duration', 0))
DurationOf(i) ==
    IF K_duration \in DOMAIN i /\ i[K_duration] # <<>>
    THEN FloatOfText(i[K_duration])
    ELSE IF K_format_duration \in DOMAIN i
    THEN FloatOfText(i[K_format_duration])
    ELSE [ok |-> TRUE, num |-> 0, den |-> 1]

(***************************************************************************)
(* compress_media: the bitrate                                             *)
(***************************************************************************)
\* floor(a * m / d) for a, m >= 0 and d > 0, without forming a * m
MulDivFloor(a, m, d) == m * (a \div d) + (m * (a % d)) \div d

\* TargetBitsSafe without the 0.9 margin
TargetBitsSafe_NoMargin(mb, dur) ==
    MulDivFloor(mb * 8 * 1024 * 1024, dur.den, dur.num)

\* int(((target_size_mb * 8 * 1024 * 1024) / duration) * 0.9)
TargetBitsSafe(mb, dur) ==
    MulDivFloor(mb * 8 * 1024 * 1024, 9 * dur.den, 10 * dur.num)

\* f"{target_bits_safe // 1024}k"
BitrateText(tbs) == Str(tbs \div 1024) \o "k"

\* comp_opts of compress_media
CompOpts(tbs, o) ==
    [ConvertOptions EXCEPT !.bitrate = Some(BitrateText(tbs)),
                           !.audio_bitrate = Some("128k"),
                           !.preset = Some("slow"),
                           !.output_dir = o.output_dir]

\* _get_output_path, the directory left out
_get_output_path(in, suffix, ext, o) ==
    [stem |-> in.stem \o "_" \o suffix, ext |-> "." \o ext]

(***************************************************************************)
(* The calls                                                               *)
(***************************************************************************)
NoInfo == [k \in {} |-> <<>>]

NoAnswers == <<>>

\* a builder called on the options and the output extension of the state
Call_build_filter ==
    /\ pc = "idle" /\ call = "_build_filter"
    /\ args' = _build_filter(opts)
    /\ pc' = "done"
    /\ UNCHANGED <<opts, input_file, output_file, input_exists, out_state,
                   call, cmd, popen_calls, returncode, ret, probe,
                   target_size_mb, info, target_bits_safe, answers>>

Call_build_video_opts ==
    /\ pc = "idle" /\ call = "_build_video_opts"
    /\ args' = _build_video_opts(output_file.ext, opts)
    /\ pc' = "done"
    /\ UNCHANGED <<opts, input_file, output_file, input_exists, out_state,
                   call, cmd, popen_calls, returncode, ret, probe,
                   target_size_mb, info, target_bits_safe, answers>>

Call_build_image_opts ==
    /\ pc = "idle" /\ call = "_build_image_opts"
    /\ args' = _build_image_opts(output_file.ext, opts)
    /\ pc' = "done"
    /\ UNCHANGED <<opts, input_file, output_file, input_exists, out_state,
                   call, cmd, popen_calls, returncode, ret, probe,
                   target_size_mb, info, target_bits_safe, answers>>

\* ConvertBody without the test of the input file
ConvertBody_NoExistsCheck(in, out, o) ==
    /\ cmd' = BuildCmd(in, out, o)
    /\ \/ /\ pc' = "running"
          /\ ret' = "none"
          /\ popen_calls' = popen_calls + 1
       \/ /\ pc' = "done"
          /\ ret' = "False"
          /\ popen_calls' = popen_calls

\* convert up to the start of the engine: a missing input returns False;
\* otherwise the command is built and Popen starts the engine, or raises
\* (which the except clause turns into False)
ConvertBody(in, out, o) ==
    IF ~input_exists
    THEN /\ cmd' = <<>>
         /\ pc' = "done"
         /\ ret' = "False"
         /\ popen_calls' = popen_calls
    ELSE /\ cmd' = BuildCmd(in, out, o)
         /\ \/ /\ pc' = "running"
               /\ ret' = "none"
               /\ popen_calls' = popen_calls + 1
            \/ /\ pc' = "done"
               /\ ret' = "False"
               /\ popen_calls' = popen_calls

convert ==
    /\ pc = "idle" /\ call = "convert"
    /\ ConvertBody(input_file, output_file, opts)
    /\ UNCHANGED <<opts, input_file, output_file, input_exists, out_state,
                   call, args, returncode, probe, target_size_mb, info,
                   target_bits_safe, answers>>

\* what convert returns once the engine has exited with status rc and left
\* the output file in state st: getsize raises on a missing file
ConvertResult(rc, st) ==
    IF rc = 0
    THEN IF st = "missing" THEN "False" ELSE "True"
    ELSE "False"

ExitCodes == {0, 1}

OutStates == {"missing", "empty", "nonempty"}

\* the engine exits: process.wait() returns and convert reports
ProcessExit ==
    /\ pc = "running"
    /\ \E rc \in ExitCodes, st \in OutStates :
          /\ returncode' = Some(rc)
          /\ out_state' = st
          /\ ret' = ConvertResult(rc, st)
    /\ pc' = "done"
    /\ UNCHANGED <<opts, input_file, output_file, input_exists, call, args,
                   cmd, popen_calls, probe, target_size_mb, info,
                   target_bits_safe, answers>>

compress_media ==
    /\ pc = "idle" /\ call = "compress_media"
    /\ info' = get_info(probe)
    /\ LET dur == DurationOf(info')
       IN  IF DOMAIN info' = {}
           THEN /\ ret' = "False" /\ pc' = "done"
                /\ UNCHANGED <<opts, output_file, cmd, popen_calls,
                               target_bits_safe>>
           ELSE IF ~dur.ok
           THEN /\ ret' = "raised" /\ pc' = "done"
                /\ UNCHANGED <<opts, output_file, cmd, popen_calls,
                               target_bits_safe>>
           ELSE IF dur.num = 0
           THEN /\ ret' = "False" /\ pc' = "done"
                /\ UNCHANGED <<opts, output_file, cmd, popen_calls,
                               target_bits_safe>>
           ELSE /\ target_bits_safe' = TargetBitsSafe(target_size_mb, dur)
                /\ output_file' =
                       _get_output_path(input_file, "compressed", "mp4", opts)
                /\ opts' = CompOpts(target_bits_safe', opts)
                /\ ConvertBody(input_file, output_file', opts')
    /\ UNCHANGED <<input_file, input_exists, out_state, call, args,
                   returncode, probe, target_size_mb, answers>>

(***************************************************************************)
(* The inputs                                                              *)
(***************************************************************************)
MaxTargetMB == 52

QualityBelow == 4

QualityAbove == 203

NoProbe == [path_ok |-> FALSE, run_ok |-> FALSE, stdout |-> <<>>]

\* options of the builders: every field at a few values
BuildOptsProduct ==
    [width : {None, Some(0), Some(480)},
     height : {None, Some(0), Some(360)},
     fps : {None, Some(15)},
     quality : {None, Some(0), Some(10)},
     bitrate : {None, Some("2M")},
     audio_bitrate : {None, Some("128k")},
     codec : {None, Some("libx265")},
     preset : {None, Some("slow")},
     extra_args : {None, Some(<<"-movflags", "+faststart">>)},
     output_dir : {None}]

\* options of the builders: every quality, with and without a width
BuildOptsQuality ==
    {[ConvertOptions EXCEPT !.quality = Some(q), !.width = w] :
        q \in (0 - QualityBelow)..QualityAbove, w \in {None, Some(480)}}

BuildExts ==
    {".mp4", ".mov", ".m4v", ".avi", ".mkv", ".webm", ".wmv", ".flv", ".gif",
     ".ts", ".MP4", ".GIF", ".jpg", ".jpeg", ".png", ".webp", ".bmp", ".JPG",
     ".PNG", ".WebP", ".mp3"}

InitBuild ==
    /\ opts \in BuildOptsProduct \cup BuildOptsQuality
    /\ output_file \in [stem : {"out"}, ext : BuildExts]
    /\ call \in {"_build_filter", "_build_video_opts", "_build_image_opts"}
    /\ input_file = [stem |-> "clip", ext |-> ".mp4"]
    /\ input_exists = TRUE
    /\ out_state = "missing"
    /\ pc = "idle"
    /\ args = <<>>
    /\ cmd = <<>>
    /\ popen_calls = 0
    /\ returncode = None
    /\ ret = "none"
    /\ probe = NoProbe
    /\ target_size_mb = 0
    /\ info = NoInfo
    /\ target_bits_safe = 0
    /\ answers = NoAnswers

NextBuild ==
    \/ Call_build_filter
    \/ Call_build_video_opts
    \/ Call_build_image_opts

SpecBuild == InitBuild /\ [][NextBuild]_vars

\* options of convert
RunOpts ==
    [width : {None, Some(480)},
     height : {None, Some(360)},
     fps : {None, Some(15)},
     quality : {None, Some(0), Some(10)},
     bitrate : {None, Some("2M")},
     audio_bitrate : {None, Some("128k")},
     codec : {None, Some("libx265")},
     preset : {None, Some("slow")},
     extra_args : {None, Some(<<"-movflags", "+faststart">>)},
     output_dir : {None}]

InputFiles ==
    [stem : {"clip"}, ext : {".mp4", ".MKV", ".gif", ".png", ".mp3"}]

OutputFiles ==
    [stem : {"out"},
     ext : {".mp4", ".webm", ".ts", ".gif", ".GIF", ".jpg", ".png", ".webp",
            ".bmp", ".mp3"}]

\* ffprobe's output: lines of characters
L_width == <<"w", "i", "d", "t", "h", "=", "6", "4", "0">>

L_dur(v) == K_duration \o <<"=">> \o v

L_fdur(v) == K_format_duration \o <<"=">> \o v

ProbeOutputs ==
    {<<>>,
     <<L_width>>,
     <<<<"x">>>>,
     <<L_width, L_dur(<<"1", "0", "0", ".", "0", "0", "0", "0", "0", "0">>)>>,
     <<L_width, L_dur(<<"N", "/", "A">>), L_dur(<<"1", "2", ".", "5">>)>>,
     <<L_width, L_dur(<<"7">>), L_dur(<<"N", "/", "A">>)>>,
     <<L_width, L_dur(<<"N", "/", "A">>)>>,
     <<L_width, L_dur(<<"0", ".", "0", "0", "0", "0", "0", "0">>)>>,
     <<L_width, L_dur(<<"0">>)>>,
     <<L_width, L_dur(<<>>)>>,
     <<L_width, L_dur(<<>>), L_fdur(<<"3", "0">>)>>,
     <<L_width, L_fdur(<<>>)>>,
     <<L_width, L_fdur(<<"0", ".", "5">>)>>,
     <<L_width, L_dur(<<"3", "6", "0", "0">>)>>}

Probes ==
    {NoProbe, [path_ok |-> TRUE, run_ok |-> FALSE, stdout |-> <<>>]}
    \cup [path_ok : {TRUE}, run_ok : {TRUE}, stdout : ProbeOutputs]

InitConvert ==
    /\ call = "convert"
    /\ opts \in RunOpts
    /\ input_file \in InputFiles
    /\ output_file \in OutputFiles
    /\ input_exists \in BOOLEAN
    /\ probe = NoProbe
    /\ target_size_mb = 0

InitCompress ==
    /\ call = "compress_media"
    /\ opts = ConvertOptions
    /\ input_file \in [stem : {"clip"}, ext : {".mp4", ".gif"}]
    /\ output_file = [stem |-> "", ext |-> ""]
    /\ probe \in Probes
    /\ input_exists \in (IF probe.stdout = <<>> THEN BOOLEAN ELSE {TRUE})
    /\ target_size_mb \in 1..MaxTargetMB

Init ==
    /\ InitConvert \/ InitCompress
    /\ out_state \in {"missing", "nonempty"}
    /\ pc = "idle"
    /\ args = <<>>
    /\ cmd = <<>>
    /\ popen_calls = 0
    /\ returncode = None
    /\ ret = "none"
    /\ info = NoInfo
    /\ target_bits_safe = 0
    /\ answers = NoAnswers

Next ==
    \/ convert
    \/ compress_media
    \/ ProcessExit

Spec == Init /\ [][Next]_vars

(***************************************************************************)
(* main: the typed answers.  An answer is a sequence of one-character      *)
(* strings, as input() returns it                                          *)
(***************************************************************************)
\* s.lstrip(c) and s.rstrip(c) for one character c
RECURSIVE LStripChar(_, _)
LStripChar(s, c) ==
    IF s # <<>> /\ Head(s) = c THEN LStripChar(Tail(s), c) ELSE s

RECURSIVE RStripChar(_, _)
RStripChar(s, c) ==
    IF s # <<>> /\ s[Len(s)] = c
    THEN RStripChar(SubSeq(s, 1, Len(s) - 1), c)
    ELSE s

\* s.strip('"')
StripQuotes(s) == RStripChar(LStripChar(s, "\""), "\"")

\* s.strip(), the blank being the only white space typed
Strip(s) == RStripChar(LStripChar(s, " "), " ")

\* the text as a str
TextStr(s) == Join(s, "")

\* c.lower() for the letters typed
LowerChar(c) ==
    CASE c = "F" -> "f" [] c = "G" -> "g" [] c = "I" -> "i"
      [] c = "M" -> "m" [] c = "P" -> "p" [] c = "X" -> "x"
      [] OTHER -> c

\* s.lower()
RECURSIVE LowerText(_)
LowerText(s) ==
    IF s = <<>> THEN <<>>
    ELSE <<LowerChar(Head(s))>> \o LowerText(Tail(s))

\* the characters typed that str.isdigit() accepts: the decimal digits and
\* the superscript two, which is a digit but no decimal
IsDigitChars == Digits \cup {"²"}

\* s.isdigit()
isdigit(s) == s # <<>> /\ \A i \in 1..Len(s) : s[i] \in IsDigitChars

\* int(s): white space around and a sign before a run of decimal digits;
\* any other text raises ValueError (ok is FALSE)
IntOf(s) ==
    LET t == Strip(s)
        signed == t # <<>> /\ Head(t) \in {"+", "-"}
        ds == IF signed THEN Tail(t) ELSE t
    IN  IF ds # <<>> /\ \A i \in 1..Len(ds) : ds[i] \in Digits
        THEN [ok |-> TRUE,
              val |-> IF signed /\ Head(t) = "-"
                      THEN 0 - DigitsVal(ds) ELSE DigitsVal(ds)]
        ELSE [ok |-> FALSE, val |-> 0]

\* the length of the run of \d that starts at position i of s
RECURSIVE DigitRun(_, _)
DigitRun(s, i) ==
    IF i <= Len(s) /\ s[i] \in Digits THEN 1 + DigitRun(s, i + 1) ELSE 0

\* parse_size: (width, height), or ok FALSE when int() raises
parse_size(size_str) ==
    LET n1 == DigitRun(size_str, 1)
        n2 == DigitRun(size_str, n1 + 2)
        low == LowerText(size_str)
    IN  IF size_str = <<>> THEN [ok |-> TRUE, w |-> None, h |-> None]
        ELSE IF /\ n1 > 0 /\ n1 + 1 <= Len(size_str)
                /\ size_str[n1 + 1] \in {"x", "X"} /\ n2 > 0
        THEN [ok |-> TRUE,
              w |-> Some(DigitsVal(SubSeq(size_str, 1, n1))),
              h |-> Some(DigitsVal(SubSeq(size_str, n1 + 2, n1 + 1 + n2)))]
        ELSE IF low = <<"1", "0", "8", "0", "p">>
        THEN [ok |-> TRUE, w |-> Some(1920), h |-> Some(1080)]
        ELSE IF low = <<"7", "2", "0", "p">>
        THEN [ok |-> TRUE, w |-> Some(1280), h |-> Some(720)]
        ELSE IF low = <<"4", "8", "0", "p">>
        THEN [ok |-> TRUE, w |-> Some(854), h |-> Some(480)]
        ELSE IF isdigit(size_str)
        THEN [ok |-> IntOf(size_str).ok,
              w |-> Some(IntOf(size_str).val), h |-> None]
        ELSE [ok |-> TRUE, w |-> None, h |-> None]

\* get_file: the path typed, when it exists
get_file(f, exists) == IF exists THEN Some(f) ELSE None

\* get_output_dir on the answers a = [choice, d] and the file system's
\* view of d: "isdir", "creatable" (mkdir succeeds) or "blocked"
get_output_dir(a) ==
    LET d == StripQuotes(Strip(a.d))
    IN  IF Strip(a.choice) = <<"2">>
        THEN IF d # <<>> /\ a.fs = "isdir" THEN Some(TextStr(d))
             ELSE IF d # <<>>
             THEN IF a.fs = "creatable" THEN Some(TextStr(d)) ELSE None
             ELSE None
        ELSE None

\* the prompts get_output_dir showed
DirAsked(a) ==
    <<<<"dir_choice", a.choice>>>>
    \o (IF Strip(a.choice) = <<"2">> THEN <<<<"dir", a.d>>>> ELSE <<>>)

\* advanced_options on the answers a = [dir, size, q, fps, br, pr]: the
\* options, or ok FALSE when an int() of it raises
advanced_options(a) ==
    LET size == Strip(a.size)
        ps == parse_size(size)
        q == Strip(a.q)
        fps == Strip(a.fps)
        br == Strip(a.br)
        pr == Strip(a.pr)
    IN  [ok |-> /\ ps.ok
                /\ (isdigit(q) => IntOf(q).ok)
                /\ (isdigit(fps) => IntOf(fps).ok),
         opts |->
             [ConvertOptions EXCEPT
                 !.output_dir = get_output_dir(a.dir),
                 !.width = IF size # <<>> THEN ps.w ELSE None,
                 !.height = IF size # <<>> THEN ps.h ELSE None,
                 !.quality = IF isdigit(q) THEN Some(IntOf(q).val) ELSE None,
                 !.fps = IF isdigit(fps) THEN Some(IntOf(fps).val) ELSE None,
                 !.bitrate = IF br # <<>> THEN Some(TextStr(br)) ELSE None,
                 !.preset = IF pr # <<>> THEN Some(TextStr(pr)) ELSE None]]

\* the prompts advanced_options showed before it returned or raised
AdvAsked(a) ==
    LET upto_size == DirAsked(a.dir) \o <<<<"size", a.size>>>>
        upto_q == upto_size \o <<<<"q", a.q>>>>
        upto_fps == upto_q \o <<<<"fps", a.fps>>>>
    IN  IF ~parse_size(Strip(a.size)).ok THEN upto_size
        ELSE IF isdigit(Strip(a.q)) /\ ~IntOf(Strip(a.q)).ok THEN upto_q
        ELSE IF isdigit(Strip(a.fps)) /\ ~IntOf(Strip(a.fps)).ok
        THEN upto_fps
        ELSE upto_fps \o <<<<"br", a.br>>, <<"pr", a.pr>>>>

(***************************************************************************)
(* main: what a pass of the loop calls                                     *)
(***************************************************************************)
NoFile == [stem |-> "", ext |-> ""]

\* the locals of a pass before any prompt was answered, the pass ending at
\* the pause prompt
Pass0 ==
    [pc |-> "paused", opts |-> ConvertOptions, input_file |-> NoFile,
     output_file |-> NoFile, input_exists |-> FALSE, cmd |-> <<>>,
     popen_calls |-> 0, returncode |-> None, out_state |-> "missing",
     ret |-> "none", probe |-> NoProbe, info |-> NoInfo,
     target_size_mb |-> 0, target_bits_safe |-> 0]

\* the pass ended by an exception that nothing catches
Raised(r, what) == [r EXCEPT !.pc = "crashed", !.ret = what]

\* what the engine does when it is asked to start: Popen raises, or the
\* process runs, exits with rc and leaves the output file in state st
EngineRuns ==
    {e \in [started : BOOLEAN, rc : ExitCodes, st : OutStates] :
        ~e.started => e.rc = 0 /\ e.st = "missing"}

\* convert(in, out, o) from the call to the return, the input existing
ConvertCall(r, in, out, o, e) ==
    [r EXCEPT !.input_file = in, !.input_exists = TRUE,
              !.output_file = out, !.opts = o,
              !.cmd = BuildCmd(in, out, o),
              !.popen_calls = IF e.started THEN 1 ELSE 0,
              !.returncode = IF e.started THEN Some(e.rc) ELSE None,
              !.out_state = IF e.started THEN e.st ELSE r.out_state,
              !.ret = IF e.started THEN ConvertResult(e.rc, e.st)
                      ELSE "False"]

\* subprocess.run(cmd) of choice 14: no except clause around it
RunCall(r, in, out, o, c, e) ==
    IF ~e.started
    THEN Raised([r EXCEPT !.input_file = in, !.input_exists = TRUE,
                          !.output_file = out, !.opts = o, !.cmd = c],
                "run:OSError")
    ELSE [r EXCEPT !.input_file = in, !.input_exists = TRUE,
                   !.output_file = out, !.opts = o, !.cmd = c,
                   !.popen_calls = 1, !.returncode = Some(e.rc),
                   !.out_state = e.st]

\* presets of quick_video_convert
VideoPresets(target_format) ==
    CASE target_format = "mp4" ->
             [ConvertOptions EXCEPT !.quality = Some(23),
                                    !.preset = Some("medium")]
      [] target_format = "avi" ->
             [ConvertOptions EXCEPT !.codec = Some("libxvid")]
      [] target_format = "mov" -> [ConvertOptions EXCEPT !.quality = Some(23)]
      [] target_format = "webm" ->
             [ConvertOptions EXCEPT !.quality = Some(28)]
      [] OTHER -> ConvertOptions

quick_video_convert(r, in, target_format, o, e) ==
    LET output == _get_output_path(in, "converted", target_format, o)
        d1 == [VideoPresets(target_format) EXCEPT
                  !.output_dir = o.output_dir]
        d2 == IF TruthyInt(o.quality)
              THEN [d1 EXCEPT !.quality = o.quality] ELSE d1
        d3 == IF TruthyStr(o.preset)
              THEN [d2 EXCEPT !.preset = o.preset] ELSE d2
    IN  ConvertCall(r, in, output, d3, e)

\* quality_map of quick_image_convert, with its default
quality_map(target_format) ==
    CASE target_format \in {"jpg", "jpeg", "png"} -> Some(2)
      [] target_format = "webp" -> Some(85)
      [] target_format \in {"bmp", "gif"} -> None
      [] OTHER -> Some(2)

quick_image_convert(r, in, target_format, o, e) ==
    LET output == _get_output_path(in, "converted", target_format, o)
        d == [ConvertOptions EXCEPT !.quality = quality_map(target_format),
                                    !.output_dir = o.output_dir]
    IN  ConvertCall(r, in, output, d, e)

\* compress_media(in, mb, o) from the call to the return, the probe
\* meeting p
CompressCall(r, in, mb, o, p, e) ==
    LET i == get_info(p)
        dur == DurationOf(i)
        r1 == [r EXCEPT !.input_file = in, !.input_exists = TRUE,
                        !.opts = o, !.target_size_mb = mb, !.probe = p,
                        !.info = i]
    IN  IF DOMAIN i = {} THEN [r1 EXCEPT !.ret = "False"]
        ELSE IF ~dur.ok THEN Raised(r1, "float:ValueError")
        ELSE IF dur.num = 0 THEN [r1 EXCEPT !.ret = "False"]
        ELSE LET tbs == TargetBitsSafe(mb, dur)
             IN  ConvertCall([r1 EXCEPT !.target_bits_safe = tbs], in,
                             _get_output_path(in, "compressed", "mp4", o),
                             CompOpts(tbs, o), e)

(***************************************************************************)
(* main: the answers typed                                                 *)
(***************************************************************************)
ChoiceAnswers ==
    {<<"0">>, <<"1">>, <<"5">>, <<"6">>, <<"7">>, <<"8">>, <<"1", "1">>,
     <<"1", "2">>, <<"1", "3">>, <<"1", "4">>, <<"1", "5">>,
     <<" ", "1", "5", " ">>, <<"1", "6">>, <<"x">>, <<>>}

MenuFiles == [stem : {"clip"}, ext : {".mp4", ".png"}]

\* the answers to get_output_dir and what the file system makes of them
DirAnswers ==
    {[choice |-> <<"1">>, d |-> <<>>, fs |-> "blocked"],
     [choice |-> <<"2">>, d |-> <<>>, fs |-> "blocked"],
     [choice |-> <<"2">>, d |-> <<"\"", "o", "u", "t", "\"">>,
      fs |-> "isdir"],
     [choice |-> <<"2">>, d |-> <<"o", "u", "t">>, fs |-> "creatable"],
     [choice |-> <<"2">>, d |-> <<"o", "u", "t">>, fs |-> "blocked"]}

SizeAnswers ==
    {<<>>, <<"7", "2", "0", "P">>, <<"6", "4", "0", "X", "4", "8", "0">>,
     <<"6", "4", "0">>, <<"b", "i", "g">>}

QualityAnswers == {<<>>, <<"0">>, <<"2", "3">>, <<"-", "1">>, <<"²">>}

FpsAnswers == {<<>>, <<"3", "0">>}

BitrateAnswers == {<<>>, <<"2", "M">>}

PresetAnswers == {<<>>, <<"s", "l", "o", "w">>}

FormatAnswers ==
    {<<"m", "p", "4">>, <<"G", "I", "F">>, <<"p", "n", "g">>,
     <<"x", "y", "z">>}

TimeAnswers == {<<>>, <<"3">>}

TargetAnswers ==
    {<<>>, <<"2", "0">>, <<"0">>, <<"1", ".", "5">>, <<"a", "b", "c">>}

\* advanced_options with every prompt left at its default
NoAdvAnswers ==
    [dir |-> [choice |-> <<"1">>, d |-> <<>>, fs |-> "blocked"],
     size |-> <<>>, q |-> <<>>, fps |-> <<>>, br |-> <<>>, pr |-> <<>>]

\* the answers of choice 14, whose own get_output_dir wins over the one
\* advanced_options asks: every size with every quality, and every frame
\* rate with every bitrate and preset
InterAdvAnswers ==
    {[NoAdvAnswers EXCEPT !.size = s, !.q = q] :
        s \in SizeAnswers, q \in QualityAnswers}
    \cup {[NoAdvAnswers EXCEPT !.fps = f, !.br = b, !.pr = p] :
            f \in FpsAnswers, b \in BitrateAnswers, p \in PresetAnswers}

\* the answers to advanced_options: those, and every directory with every
\* size
AdvAnswers ==
    InterAdvAnswers
    \cup {[NoAdvAnswers EXCEPT !.dir = d, !.size = s] :
            d \in DirAnswers, s \in SizeAnswers}

(***************************************************************************)
(* main: the loop.  A pass starts at the menu prompt, runs the branch of   *)
(* the choice and waits at the pause prompt, or leaves the loop            *)
(***************************************************************************)
\* the pass with label ends: the prompts it showed and its outcome r
Apply(label, asked, r) ==
    /\ call' = label
    /\ answers' = asked
    /\ pc' = r.pc
    /\ opts' = r.opts
    /\ input_file' = r.input_file
    /\ output_file' = r.output_file
    /\ input_exists' = r.input_exists
    /\ cmd' = r.cmd
    /\ popen_calls' = r.popen_calls
    /\ returncode' = r.returncode
    /\ out_state' = r.out_state
    /\ ret' = r.ret
    /\ probe' = r.probe
    /\ info' = r.info
    /\ target_size_mb' = r.target_size_mb
    /\ target_bits_safe' = r.target_bits_safe
    /\ UNCHANGED args

\* the choices main has a branch for
KnownChoices ==
    {<<"0">>, <<"1">>, <<"2">>, <<"3">>, <<"4">>, <<"5">>, <<"6">>, <<"7">>,
     <<"8">>, <<"9">>, <<"1", "0">>, <<"1", "1">>, <<"1", "2">>,
     <<"1", "3">>, <<"1", "4">>, <<"1", "5">>}

\* the prompts every branch with a file starts with
Asked0(c, f) == <<<<"choice", c>>, <<"file", f>>>>

\* the pass once get_file returned the path
Got(f) == [Pass0 EXCEPT !.input_file = f, !.input_exists = TRUE]

\* the answers to the menu prompt that strip to one of the choices cs
Choosing(cs) == {c \in ChoiceAnswers : Strip(c) \in cs}

\* choice 0
MenuExit ==
    /\ pc = "menu"
    /\ \E c \in Choosing({<<"0">>}) :
           Apply("exit", <<<<"choice", c>>>>, [Pass0 EXCEPT !.pc = "exited"])

\* choices 1 to 5
MenuQuickVideo ==
    /\ pc = "menu"
    /\ \E c \in Choosing({<<"1">>, <<"2">>, <<"3">>, <<"4">>, <<"5">>}),
          f \in MenuFiles, ex \in BOOLEAN :
           IF get_file(f, ex) = None
           THEN Apply("quick_video", Asked0(c, f), Pass0)
           ELSE \E d \in DirAnswers, e \in EngineRuns :
                   LET formats == <<"mp4", "avi", "mkv", "mov", "webm">>
                       o == [ConvertOptions EXCEPT
                                !.output_dir = get_output_dir(d)]
                   IN  Apply("quick_video", Asked0(c, f) \o DirAsked(d),
                             quick_video_convert(Pass0, f,
                                 formats[IntOf(Strip(c)).val - 1 + 1], o, e))

\* choice 6
MenuGif ==
    /\ pc = "menu"
    /\ \E c \in Choosing({<<"6">>}), f \in MenuFiles, ex \in BOOLEAN :
           IF get_file(f, ex) = None
           THEN Apply("gif", Asked0(c, f), Pass0)
           ELSE \E d \in DirAnswers, e \in EngineRuns :
                   LET output == [stem |-> f.stem, ext |-> ".gif"]
                       o == [ConvertOptions EXCEPT
                                !.width = Some(480), !.fps = Some(15),
                                !.quality = Some(10),
                                !.output_dir = get_output_dir(d)]
                   IN  Apply("gif", Asked0(c, f) \o DirAsked(d),
                             ConvertCall(Pass0, f, output, o, e))

\* choice 7
MenuAudio ==
    /\ pc = "menu"
    /\ \E c \in Choosing({<<"7">>}), f \in MenuFiles, ex \in BOOLEAN :
           IF get_file(f, ex) = None
           THEN Apply("audio", Asked0(c, f), Pass0)
           ELSE \E d \in DirAnswers, e \in EngineRuns :
                   LET output == [stem |-> f.stem \o "_audio", ext |-> ".mp3"]
                       o == [ConvertOptions EXCEPT
                                !.output_dir = get_output_dir(d)]
                   IN  Apply("audio", Asked0(c, f) \o DirAsked(d),
                             ConvertCall(Pass0, f, output, o, e))

\* choices 8 to 11
MenuQuickImage ==
    /\ pc = "menu"
    /\ \E c \in Choosing({<<"8">>, <<"9">>, <<"1", "0">>, <<"1", "1">>}),
          f \in MenuFiles, ex \in BOOLEAN :
           IF get_file(f, ex) = None
           THEN Apply("quick_image", Asked0(c, f), Pass0)
           ELSE \E d \in DirAnswers, e \in EngineRuns :
                   LET formats == <<"jpg", "png", "webp", "bmp">>
                       o == [ConvertOptions EXCEPT
                                !.output_dir = get_output_dir(d)]
                   IN  Apply("quick_image", Asked0(c, f) \o DirAsked(d),
                             quick_image_convert(Pass0, f,
                                 formats[IntOf(Strip(c)).val - 8 + 1], o, e))

\* advanced_options and the convert that follows it, of choices 12 and 13
AdvancedConvert(label, asked, f, fmt) ==
    \E a \in AdvAnswers :
        LET adv == advanced_options(a)
        IN  IF ~adv.ok
            THEN Apply(label, asked \o AdvAsked(a),
                       Raised(Got(f), "int:ValueError"))
            ELSE \E e \in EngineRuns :
                    Apply(label, asked \o AdvAsked(a),
                          ConvertCall(Pass0, f,
                              _get_output_path(f, "custom", fmt, adv.opts),
                              adv.opts, e))

\* choice 12
MenuAdvancedVideo ==
    /\ pc = "menu"
    /\ \E c \in Choosing({<<"1", "2">>}), f \in MenuFiles, ex \in BOOLEAN :
           IF get_file(f, ex) = None
           THEN Apply("advanced_video", Asked0(c, f), Pass0)
           ELSE \E t \in FormatAnswers :
                   LET fmt == TextStr(LowerText(Strip(t)))
                       asked == Asked0(c, f) \o <<<<"fmt", t>>>>
                   IN  IF fmt \notin {"mp4", "avi", "mkv", "mov", "wmv", "flv",
                                      "webm"}
                       THEN Apply("advanced_video", asked, Got(f))
                       ELSE AdvancedConvert("advanced_video", asked, f, fmt)

\* choice 13
MenuAdvancedImage ==
    /\ pc = "menu"
    /\ \E c \in Choosing({<<"1", "3">>}), f \in MenuFiles, ex \in BOOLEAN :
           IF get_file(f, ex) = None
           THEN Apply("advanced_image", Asked0(c, f), Pass0)
           ELSE \E t \in FormatAnswers :
                   AdvancedConvert("advanced_image",
                                   Asked0(c, f) \o <<<<"fmt", t>>>>, f,
                                   TextStr(LowerText(Strip(t))))

SubAnswers == {<<"1">>, <<"2">>, <<>>}

\* the command of choice 14, video to image
FrameCmd(f, time, fmt, o, output) ==
    <<ffmpeg_path, "-ss", time, "-i", PathStr(f), "-vframes", "1">>
    \o _build_image_opts("." \o fmt, o)
    \o <<PathStr(output)>>

\* the command of choice 14, image to video
SlidesCmd(f, duration, o, output) ==
    <<ffmpeg_path, "-loop", "1", "-i", PathStr(f), "-c:v", "libx264", "-t",
      duration, "-pix_fmt", "yuv420p">>
    \o (IF TruthyInt(o.width) \/ TruthyInt(o.height)
        THEN <<"-vf", "scale=" \o Str(OrInt(o.width, -1)) \o ":"
                      \o Str(OrInt(o.height, -1))>>
        ELSE <<>>)
    \o (IF TruthyInt(o.quality) THEN <<"-crf", Str(o.quality[1])>> ELSE <<>>)
    \o <<PathStr(output)>>

\* choice 14, video to image, the file given
InterFrame(asked, f) ==
    \E t \in FormatAnswers, tm \in TimeAnswers, d \in DirAnswers,
       a \in InterAdvAnswers :
        LET fmt == TextStr(LowerText(Strip(t)))
            time == OrStr(Some(TextStr(Strip(tm))), "1")
            adv == advanced_options(a)
            o == [adv.opts EXCEPT !.output_dir = get_output_dir(d)]
            output == [stem |-> f.stem \o "_frame", ext |-> "." \o fmt]
            shown == asked \o <<<<"fmt", t>>, <<"time", tm>>>>
                     \o DirAsked(d) \o AdvAsked(a)
        IN  IF ~adv.ok
            THEN Apply("interconvert", shown,
                       Raised(Got(f), "int:ValueError"))
            ELSE \E e \in EngineRuns :
                    Apply("interconvert", shown,
                          RunCall(Pass0, f, output, o,
                                  FrameCmd(f, time, fmt, o, output), e))

\* choice 14, image to video, the file given
InterSlides(asked, f) ==
    \E tm \in TimeAnswers, d \in DirAnswers, a \in InterAdvAnswers :
        LET duration == OrStr(Some(TextStr(Strip(tm))), "5")
            adv == advanced_options(a)
            o == [adv.opts EXCEPT !.output_dir = get_output_dir(d)]
            o30 == [o EXCEPT !.fps = Some(OrInt(o.fps, 30))]
            output == [stem |-> f.stem \o "_video", ext |-> ".mp4"]
            shown == asked \o <<<<"duration", tm>>>>
                     \o DirAsked(d) \o AdvAsked(a)
        IN  IF ~adv.ok
            THEN Apply("interconvert", shown,
                       Raised(Got(f), "int:ValueError"))
            ELSE \E e \in EngineRuns :
                    Apply("interconvert", shown,
                          RunCall(Pass0, f, output, o30,
                                  SlidesCmd(f, duration, o30, output), e))

\* choice 14
MenuInterconvert ==
    /\ pc = "menu"
    /\ \E c \in Choosing({<<"1", "4">>}), sub \in SubAnswers :
           LET asked == <<<<"choice", c>>, <<"sub", sub>>>>
           IN  IF Strip(sub) \in {<<"1">>, <<"2">>}
               THEN \E f \in MenuFiles, ex \in BOOLEAN :
                       IF get_file(f, ex) = None
                       THEN Apply("interconvert", asked \o <<<<"file", f>>>>,
                                  Pass0)
                       ELSE IF Strip(sub) = <<"1">>
                       THEN InterFrame(asked \o <<<<"file", f>>>>, f)
                       ELSE InterSlides(asked \o <<<<"file", f>>>>, f)
               ELSE Apply("interconvert", asked, Pass0)

\* choice 15
MenuCompress ==
    /\ pc = "menu"
    /\ \E c \in Choosing({<<"1", "5">>}), f \in MenuFiles, ex \in BOOLEAN :
           IF get_file(f, ex) = None
           THEN Apply("compress", Asked0(c, f), Pass0)
           ELSE \E t \in TargetAnswers, d \in DirAnswers :
                   LET size == IF Strip(t) = <<>> THEN <<"5", "0">>
                               ELSE Strip(t)
                       o == [ConvertOptions EXCEPT
                                !.output_dir = get_output_dir(d)]
                       asked == Asked0(c, f) \o <<<<"mb", t>>>> \o DirAsked(d)
                   IN  IF ~IntOf(size).ok
                       THEN Apply("compress", asked,
                                  Raised([Got(f) EXCEPT !.opts = o],
                                         "int:ValueError"))
                       ELSE \E p \in Probes, e \in EngineRuns :
                               Apply("compress", asked,
                                     CompressCall(Pass0, f, IntOf(size).val, o,
                                                  p, e))

\* any other choice
MenuInvalid ==
    /\ pc = "menu"
    /\ \E c \in ChoiceAnswers :
           /\ Strip(c) \notin KnownChoices
           /\ Apply("invalid", <<<<"choice", c>>>>, Pass0)

\* the loop as main enters it, and as every further pass starts
AtMenu(p, cl, as, o, i, out, ie, os, ar, cm, pcs, rc, rt, pr, ts, inf, tbs) ==
    /\ p = "menu" /\ cl = "main" /\ as = NoAnswers
    /\ o = Pass0.opts /\ i = Pass0.input_file /\ out = Pass0.output_file
    /\ ie = Pass0.input_exists /\ os = Pass0.out_state /\ ar = <<>>
    /\ cm = Pass0.cmd /\ pcs = Pass0.popen_calls /\ rc = Pass0.returncode
    /\ rt = Pass0.ret /\ pr = Pass0.probe /\ ts = Pass0.target_size_mb
    /\ inf = Pass0.info /\ tbs = Pass0.target_bits_safe

\* the pause prompt is answered and the next pass starts; nothing of the
\* pass that ended is read again
Continue ==
    /\ pc = "paused"
    /\ AtMenu(pc', call', answers', opts', input_file', output_file',
              input_exists', out_state', args', cmd', popen_calls',
              returncode', ret', probe', target_size_mb', info',
              target_bits_safe')

InitMain ==
    AtMenu(pc, call, answers, opts, input_file, output_file, input_exists,
           out_state, args, cmd, popen_calls, returncode, ret, probe,
           target_size_mb, info, target_bits_safe)

NextMain ==
    \/ MenuExit
    \/ MenuQuickVideo
    \/ MenuGif
    \/ MenuAudio
    \/ MenuQuickImage
    \/ MenuAdvancedVideo
    \/ MenuAdvancedImage
    \/ MenuInterconvert
    \/ MenuCompress
    \/ MenuInvalid
    \/ Continue

SpecMain == InitMain /\ [][NextMain]_vars

(***************************************************************************)
(* The properties                                                          *)
(***************************************************************************)
\* the values that follow the flag in the list s
FlagValues(flag, s) == {ValueAt(s, i) : i \in Positions(flag, s)}

HasFlag(flag, s) == Positions(flag, s) # {}

\* v clamped into [lo, hi], by cases
Clamped(v, lo, hi) == IF v < lo THEN lo ELSE IF v > hi THEN hi ELSE v

\* a call of convert (direct, or from compress_media) whose engine exited
EngineExited == pc = "done" /\ returncode # None

\* C1: once the engine has been started and has exited, convert returns True
\* exactly when the exit status is zero and the output file exists and is
\* non-empty.
C1_SuccessIffZeroAndNonEmptyOutput ==
    EngineExited =>
        (ret = "True" <=> (returncode[1] = 0 /\ out_state = "nonempty"))

\* compress_media went on to convert with its comp_opts
CompressConverts ==
    call = "compress_media" /\ pc # "idle" /\ opts.bitrate # None

\* comp_opts.bitrate is the text "<n>k"
BitrateIsKbits(n) == opts.bitrate = Some(Str(n) \o "k")

\* C2 (as stated): the video bitrate handed on is 0.9 times the total
\* bitrate less a 128 kbit/s audio reservation, as "<n>k", and is below the
\* total bitrate.  In units of 1024 bit/s the total is mb * 8192 / duration.
C2_BitrateReservesAudio ==
    CompressConverts =>
        LET dur == DurationOf(info)
            n == (9 * (target_size_mb * 8192 * dur.den - 128 * dur.num))
                     \div (10 * dur.num)
        IN  /\ BitrateIsKbits(n)
            /\ n * dur.num < target_size_mb * 8192 * dur.den

\* C2 (amended): the video bitrate handed on is 0.9 times the total bitrate,
\* nothing subtracted, in whole units of 1024 bit/s as "<n>k": n is the
\* integer with n <= 0.9 * total / 1024 < n + 1.  It is below the total
\* bitrate, the audio bitrate handed on is 128k, and on the ordinary video
\* path the command carries it as -b:v.
C2_BitrateIsNineTenthsOfTotal ==
    CompressConverts =>
        LET dur == DurationOf(info)
            n == target_bits_safe \div 1024
            total == target_size_mb * 8192 * dur.den
        IN  /\ dur.ok /\ dur.num > 0
            /\ BitrateIsKbits(n)
            /\ 10 * n * dur.num <= 9 * total
            /\ 9 * total < 10 * (n + 1) * dur.num
            /\ n * dur.num < total
            /\ opts.audio_bitrate = Some("128k")
            /\ (input_exists /\ ~is_image_input(input_file)
                   => FlagValues("-b:v", cmd) = {Str(n) \o "k"})

\* 50 MB over 100 s: 0.9 * 4194304 bit/s is 3686 units of 1024 bit/s
C2_Witness ==
    /\ CompressConverts /\ pc = "running"
    /\ target_size_mb = 50
    /\ DurationOf(info) = [ok |-> TRUE, num |-> 100, den |-> 1]
    /\ opts.bitrate = Some("3686k")
    /\ FlagValues("-b:v", cmd) = {"3686k"}

\* the probe gave nothing, or no duration that is a positive number
DurationUnusable ==
    \/ DOMAIN info = {}
    \/ ~DurationOf(info).ok
    \/ DurationOf(info).num = 0

\* C3: when the probe yields nothing or the duration is missing, zero or
\* unusable, compress_media returns False (it does not raise), and neither
\* builds a command nor starts the engine.
C3_UnusableDurationReturnsFalse ==
    (call = "compress_media" /\ pc = "done" /\ DurationUnusable) =>
        /\ ret = "False"
        /\ cmd = <<>>
        /\ popen_calls = 0

BuiltVideoOpts == call = "_build_video_opts" /\ pc = "done"

\* _build_video_opts took the native GIF path
GifPath ==
    ~TruthyStr(opts.codec) /\ Lower(output_file.ext) = ".gif"

\* C4 (as stated): the video arguments never hold both -crf and -b:v, and
\* with a quality (0 included) and a bitrate both present, -crf is emitted
\* and -b:v is not.
C4_QualityWinsOverBitrate ==
    BuiltVideoOpts =>
        /\ ~(HasFlag("-crf", args) /\ HasFlag("-b:v", args))
        /\ (opts.quality # None /\ opts.bitrate # None =>
               HasFlag("-crf", args) /\ ~HasFlag("-b:v", args))

\* C4 (amended): the video arguments never hold both -crf and -b:v; with a
\* quality (0 included) and a bitrate both present, -b:v is not emitted, and
\* -crf is emitted once, with the quality, except on the native GIF path
\* (.gif output, no codec override), where neither flag is emitted.
C4_QualityWinsExceptGif ==
    BuiltVideoOpts =>
        /\ ~(HasFlag("-crf", args) /\ HasFlag("-b:v", args))
        /\ (opts.quality # None /\ opts.bitrate # None =>
               /\ ~HasFlag("-b:v", args)
               /\ IF GifPath
                  THEN ~HasFlag("-crf", args)
                  ELSE /\ Count("-crf", args) = 1
                       /\ FlagValues("-crf", args) = {Str(opts.quality[1])})

C4_Witness ==
    /\ BuiltVideoOpts
    /\ opts.quality = Some(0) /\ opts.bitrate = Some("2M")
    /\ output_file.ext = ".mp4"
    /\ FlagValues("-crf", args) = {"0"}
    /\ ~HasFlag("-b:v", args)

\* the option is set: neither None nor 0, as the code tests it
IsSet(x) == x # None /\ x[1] # 0

\* the filter texts that start with the scale entry sc: alone, or followed
\* by the entries a builder may add after it
ChainsFrom(sc) ==
    {sc, sc \o ",fps=" \o Str(OrInt(opts.fps, 0)), sc \o ",format=yuvj420p"}

\* the filter texts without a scale entry
ChainsWithoutScale == {"fps=" \o Str(OrInt(opts.fps, 0)), "format=yuvj420p"}

\* the scale entry expected of a builder (suffix "" for _build_filter,
\* ":flags=lanczos" for _build_image_opts) when exactly one side is set
OneSidedScale(suffix) ==
    IF IsSet(opts.width)
    THEN "scale=" \o Str(opts.width[1]) \o ":-1" \o suffix
    ELSE "scale=-1:" \o Str(opts.height[1]) \o suffix

BuiltScaling ==
    pc = "done" /\ call \in {"_build_filter", "_build_image_opts"}

\* C5: with exactly one of width and height set, the scale filter of
\* _build_filter and of _build_image_opts carries the set value on its own
\* axis and -1 on the other; with both set, the filter differs from the
\* width-only and the height-only filters, which differ from each other; with
\* neither set there is no scale filter.  (Set: a value other than None and 0.)
C5_ScaleKeepsAspectOnUnsetAxis ==
    BuiltScaling =>
        LET suffix == IF call = "_build_filter" THEN "" ELSE ":flags=lanczos"
            wOnly == [opts EXCEPT !.height = None]
            hOnly == [opts EXCEPT !.width = None]
            Build(o) == IF call = "_build_filter" THEN _build_filter(o)
                        ELSE _build_image_opts(output_file.ext, o)
        IN  /\ (IsSet(opts.width) # IsSet(opts.height) =>
                   /\ Count("-vf", args) = 1
                   /\ FlagValues("-vf", args) \subseteq
                          ChainsFrom(OneSidedScale(suffix)))
            /\ (IsSet(opts.width) /\ IsSet(opts.height) =>
                   /\ Count("-vf", args) = 1
                   /\ FlagValues("-vf", args) \subseteq
                          ChainsFrom("scale=" \o Str(opts.width[1]) \o ":"
                                     \o Str(opts.height[1]) \o suffix)
                   /\ FlagValues("-vf", args) # FlagValues("-vf", Build(wOnly))
                   /\ FlagValues("-vf", args) # FlagValues("-vf", Build(hOnly))
                   /\ FlagValues("-vf", Build(wOnly))
                          # FlagValues("-vf", Build(hOnly)))
            /\ (~IsSet(opts.width) /\ ~IsSet(opts.height) =>
                   FlagValues("-vf", args) \subseteq ChainsWithoutScale)

C5_Witness ==
    /\ BuiltScaling /\ call = "_build_filter"
    /\ opts.width = None /\ opts.height = Some(360) /\ opts.fps = None
    /\ args = <<"-vf", "scale=-1:360">>

\* the text t is made of the pieces ps, in order, with "palettegen" before
\* "paletteuse" among them
HasPaletteStages(t, ps) ==
    /\ t = Join(ps, "")
    /\ \E i, j \in 1..Len(ps) :
          i < j /\ ps[i] = "palettegen" /\ ps[j] = "paletteuse"

\* C6: for .gif output with width and frame rate set and no codec override,
\* _build_video_opts emits exactly one -vf argument, a single chain that
\* holds the palette build step followed by the palette application step.
C6_GifSingleChainWithPalette ==
    (BuiltVideoOpts /\ GifPath /\ IsSet(opts.width) /\ IsSet(opts.fps)) =>
        /\ Count("-vf", args) = 1
        /\ \A v \in FlagValues("-vf", args) :
              HasPaletteStages(v, GifFilterParts(opts))

\* the codec the claim's table gives an extension
ClaimedCodec(ext) ==
    CASE ext \in {".mp4", ".mov", ".m4v", ".mkv", ".flv"} -> "libx264"
      [] ext = ".avi" -> "libxvid"
      [] ext = ".webm" -> "libvpx-vp9"
      [] ext = ".wmv" -> "wmv2"
      [] OTHER -> ""

\* C7: _build_video_opts emits at most one -c:v; an explicit codec is emitted
\* whatever the extension; without one, the extension's table entry is
\* emitted, .gif takes the native GIF path (no -c:v), and an extension that
\* is not in the table gets no -c:v.
C7_CodecSelection ==
    BuiltVideoOpts =>
        LET ext == Lower(output_file.ext)
        IN  /\ Count("-c:v", args) <= 1
            /\ IF TruthyStr(opts.codec)
               THEN FlagValues("-c:v", args) = {opts.codec[1]}
               ELSE IF ClaimedCodec(ext) # ""
               THEN FlagValues("-c:v", args) = {ClaimedCodec(ext)}
               ELSE IF ext = ".gif"
               THEN /\ ~HasFlag("-c:v", args)
                    /\ FlagValues("-loop", args) = {"0"}
                    /\ GifFilter(opts) \in FlagValues("-vf", args)
               ELSE ~HasFlag("-c:v", args)

C7_Witness ==
    /\ BuiltVideoOpts
    /\ output_file.ext = ".ts" /\ opts.codec = None
    /\ ~HasFlag("-c:v", args)
    /\ HasFlag("-c:a", args)

\* C8: _build_image_opts emits, for the quality q (2 when absent), q clamped
\* to [2,31] for .jpg/.jpeg, floor(q/3) clamped to [0,9] for .png and q
\* clamped to [1,100] for .webp; so 0 gives 2 for .jpg, and 200 gives 31, 9
\* and 100.
C8_ImageQualityClamped ==
    (call = "_build_image_opts" /\ pc = "done") =>
        LET q == IF opts.quality = None THEN 2 ELSE opts.quality[1]
            ext == Lower(output_file.ext)
        IN  /\ (ext \in {".jpg", ".jpeg"} =>
                   /\ FlagValues("-q:v", args) = {Str(Clamped(q, 2, 31))}
                   /\ (q = 0 => FlagValues("-q:v", args) = {"2"})
                   /\ (q = 200 => FlagValues("-q:v", args) = {"31"}))
            /\ (ext = ".png" =>
                   /\ \E k \in (0 - QualityBelow - 1)..QualityAbove :
                         /\ 3 * k <= q /\ q < 3 * k + 3
                         /\ FlagValues("-compression_level", args)
                                = {Str(Clamped(k, 0, 9))}
                   /\ (q = 200 =>
                          FlagValues("-compression_level", args) = {"9"}))
            /\ (ext = ".webp" =>
                   /\ FlagValues("-q:v", args) = {Str(Clamped(q, 1, 100))}
                   /\ (q = 200 => FlagValues("-q:v", args) = {"100"}))

C8_Witness ==
    /\ call = "_build_image_opts" /\ pc = "done"
    /\ opts.quality = Some(200) /\ output_file.ext = ".png"
    /\ args = <<"-compression_level", "9", "-y">>

\* convert built a command
BuiltCmd == cmd # <<>>

\* the audio bitrate expected: the user's when given, else 192k
ExpectedAudio == OrStr(opts.audio_bitrate, "192k")

HasAudioFlags ==
    /\ FlagValues("-c:a", cmd) = {"aac"}
    /\ FlagValues("-b:a", cmd) = {ExpectedAudio}

\* C9 (as stated): every command built for a video output (extension in
\* VIDEO_EXTS, or .gif) carries an audio codec flag and an audio bitrate
\* flag, with the user's bitrate or 192k.
C9_AudioFlagsForEveryVideoOutput ==
    (BuiltCmd /\ is_video_output(output_file)) => HasAudioFlags

\* the command came from _build_video_opts and not from its GIF path
OrdinaryVideoBranch ==
    /\ is_video_output(output_file)
    /\ ~is_image_input(input_file)
    /\ ~GifPath

\* C9 (amended): a command built for a video output carries -c:a aac and
\* -b:a with the user's bitrate or 192k when it comes from the ordinary video
\* branch; on the GIF palette path and in the image-to-video branch it
\* carries no audio flag.
C9_AudioFlagsOnOrdinaryVideoBranch ==
    (BuiltCmd /\ is_video_output(output_file)) =>
        IF OrdinaryVideoBranch
        THEN HasAudioFlags /\ Count("-b:a", cmd) = 1
        ELSE ~HasFlag("-c:a", cmd) /\ ~HasFlag("-b:a", cmd)

C9_Witness ==
    /\ BuiltCmd /\ call = "convert"
    /\ input_file.ext = ".mp4" /\ output_file.ext = ".webm"
    /\ opts.audio_bitrate = None
    /\ FlagValues("-b:a", cmd) = {"192k"}

\* the output is an image: in IMAGE_EXTS and not classified as video
StillImageOutput ==
    is_image_output(output_file) /\ ~is_video_output(output_file)

\* C10: a command built for a video input and an image output (an image
\* extension that convert does not classify as video) holds -vframes once,
\* with value 1, after a seek to 00:00:01, and then the arguments of
\* _build_image_opts up to the output path; -vframes never occurs twice, and
\* never for an input that is not video.
C10_OneFrameLimitForVideoToImage ==
    BuiltCmd =>
        /\ Count("-vframes", cmd) <= 1
        /\ (~is_video_input(input_file) => ~HasFlag("-vframes", cmd))
        /\ (is_video_input(input_file) /\ StillImageOutput =>
               /\ Count("-vframes", cmd) = 1
               /\ Count("-ss", cmd) = 1
               /\ \A i \in Positions("-vframes", cmd) :
                     /\ i >= 3 /\ i + 1 < Len(cmd)
                     /\ cmd[i + 1] = "1"
                     /\ cmd[i - 2] = "-ss" /\ cmd[i - 1] = "00:00:01"
                     /\ SubSeq(cmd, i + 2, Len(cmd) - 1)
                            = _build_image_opts(output_file.ext, opts))

C10_Witness ==
    /\ BuiltCmd /\ call = "convert"
    /\ input_file.ext = ".MKV" /\ output_file.ext = ".jpg"
    /\ opts.quality = None /\ opts.width = None /\ opts.height = None
    /\ cmd = <<"ffmpeg.exe", "-i", "clip.MKV", "-ss", "00:00:01",
               "-vframes", "1", "-q:v", "2", "-vf", "format=yuvj420p", "-y",
               "out.jpg">>

\* convert took the image-to-video branch
ImageToVideoBranch ==
    is_image_input(input_file) /\ is_video_output(output_file)

\* the scale entry expected for the options: the set side's value, -1 on an
\* unset side
ExpectedScale ==
    "scale=" \o Str(OrInt(opts.width, -1)) \o ":" \o Str(OrInt(opts.height, -1))

\* C11: a command built for an image input and a video output holds the loop
\* flag, a duration limit of 5 seconds, the pixel-format normalization, the
\* scaling filter whenever width or height is set, and the quality flag
\* whenever a quality is present in the options, 0 included.
C11_ImageToVideoCarriesQuality ==
    (BuiltCmd /\ ImageToVideoBranch) =>
        /\ FlagValues("-loop", cmd) = {"1"}
        /\ FlagValues("-t", cmd) = {"5"}
        /\ FlagValues("-pix_fmt", cmd) = {"yuv420p"}
        /\ (IsSet(opts.width) \/ IsSet(opts.height) =>
               FlagValues("-vf", cmd) \subseteq ChainsFrom(ExpectedScale)
               /\ Count("-vf", cmd) = 1)
        /\ (opts.quality # None =>
               FlagValues("-crf", cmd) = {Str(opts.quality[1])})

\* a call ended on an input file that does not exist
EndedOnMissingInput == pc = "done" /\ ~input_exists

\* C13: when the input file does not exist, convert returns False without
\* building a command and without starting the engine, and the output file
\* is left as it was; no call starts the engine more than once.
C13_MissingInputSkipsEngine ==
    /\ [](/\ popen_calls <= 1
          /\ (EndedOnMissingInput =>
                 /\ ret = "False"
                 /\ cmd = <<>>
                 /\ popen_calls = 0
                 /\ returncode = None))
    /\ [][~input_exists => out_state' = out_state]_vars

C13_Witness ==
    /\ EndedOnMissingInput /\ call = "convert"
    /\ ret = "False" /\ cmd = <<>> /\ popen_calls = 0
    /\ out_state = "nonempty"

\* the list the option translator produced for the command of the state
TranslatorArgs ==
    IF is_video_output(output_file)
    THEN IF is_image_input(input_file)
         THEN _build_filter(opts)
         ELSE _build_video_opts(SuffixLower(output_file), opts)
    ELSE _build_image_opts(SuffixLower(output_file), opts)

\* the list t lies in the list s, in one piece, from position lo on
LiesWithin(t, s, lo) ==
    \E k \in lo..(Len(s) + 1) :
        /\ k + Len(t) - 1 <= Len(s)
        /\ SubSeq(s, k, k + Len(t) - 1) = t

\* C14: every command convert builds is the engine, engine arguments, the
\* input path, the built arguments and the output path: before the output
\* path the input path occurs once, right after the single -i; only the
\* engine and the loop flag come before it; the option translator's
\* arguments come after it; and the output path is the last token.
C14_CommandShape ==
    BuiltCmd =>
        LET n == Len(cmd)
            body == SubSeq(cmd, 1, n - 1)
            at == Positions(PathStr(input_file), body)
        IN  /\ cmd[1] = ffmpeg_path
            /\ cmd[n] = PathStr(output_file)
            /\ Count("-i", cmd) = 1
            /\ Cardinality(at) = 1
            /\ \A i \in at :
                  /\ i >= 3
                  /\ cmd[i - 1] = "-i"
                  /\ SubSeq(cmd, 2, i - 2) \in {<<>>, <<"-loop", "1">>}
                  /\ LiesWithin(TranslatorArgs, body, i + 1)

C14_Witness ==
    /\ BuiltCmd /\ ImageToVideoBranch
    /\ opts.width = Some(480) /\ opts.height = None /\ opts.fps = None
    /\ opts.quality = Some(10) /\ opts.codec = None
    /\ input_file.ext = ".png" /\ output_file.ext = ".mp4"
    /\ cmd = <<"ffmpeg.exe", "-loop", "1", "-i", "clip.png", "-c:v",
               "libx264", "-t", "5", "-pix_fmt", "yuv420p", "-vf",
               "scale=480:-1", "-crf", "10", "out.mp4">>

\* C15: convert knows two output classes.  An output extension in VIDEO_EXTS
\* or .gif takes the video path; every other one (image, audio, unknown)
\* takes the image path, whose arguments end with -y.  So a video input with
\* an audio output extension gets the seek, the single-frame limit and the
\* image options, and a .gif input with a video output takes the
\* image-to-video branch (loop flag 1, no audio flags), not _build_video_opts.
C15_TwoOutputClasses ==
    BuiltCmd =>
        LET oext == Lower(output_file.ext)
            iext == Lower(input_file.ext)
            n == Len(cmd)
            videoClass == oext \in VIDEO_EXTS \cup {".gif"}
            imageArgs == _build_image_opts(oext, opts)
        IN  /\ videoClass <=> ~HasFlag("-y", cmd)
            /\ (~videoClass =>
                   SubSeq(cmd, n - Len(imageArgs), n - 1) = imageArgs)
            /\ (iext \in VIDEO_EXTS \cup {".gif"} /\ oext \in AUDIO_EXTS =>
                   cmd = <<ffmpeg_path, "-i", PathStr(input_file), "-ss",
                           "00:00:01", "-vframes", "1">>
                         \o imageArgs \o <<PathStr(output_file)>>)
            /\ (iext = ".gif" /\ videoClass =>
                   /\ FlagValues("-loop", cmd) = {"1"}
                   /\ FlagValues("-pix_fmt", cmd) = {"yuv420p"}
                   /\ FlagValues("-c:v", cmd) = {OrStr(opts.codec, "libx264")}
                   /\ ~HasFlag("-c:a", cmd)
                   /\ ~HasFlag("-preset", cmd))

C15_Witness ==
    /\ BuiltCmd /\ call = "convert"
    /\ input_file.ext = ".mp4" /\ output_file.ext = ".mp3"
    /\ opts = ConvertOptions
    /\ cmd = <<"ffmpeg.exe", "-i", "clip.mp4", "-ss", "00:00:01",
               "-vframes", "1", "-y", "out.mp3">>

\* the pass ended main with an exception that an answer raised
AnswerEndedMain == pc = "crashed" /\ ret = "int:ValueError"

\* C12: no answer to a prompt of main ends the program abnormally: main
\* leaves the loop only through choice 0.
C12_NoAnswerEndsMain ==
    /\ ~AnswerEndedMain
    /\ (pc = "exited" =>
           call = "exit" /\ answers = <<<<"choice", <<"0">>>>>>)

====
